---- MODULE Spec2Model ----
(***************************************************************************)
(* Model of the crypto-arbitrage monitor (spreadSniffer.py): two venue     *)
(* connectors (kraken_loop, coinbase_loop) feeding the shared `state`      *)
(* dictionary, and the reporter (reporter_loop / ensure_fees) that reads   *)
(* it on a 250 ms cadence.  The three coroutines run on one asyncio event  *)
(* loop, so the code between two awaits is one atomic step.                *)
(*                                                                         *)
(* Units: time is counted in reporter periods of 250 ms (TicksPerSec per   *)
(* second); prices are in cents; fee rates are in basis points (1e-4).     *)
(* The net spread is computed exactly, scaled by FeeScale, where the code  *)
(* uses binary floating point.                                             *)
(***************************************************************************)
EXTENDS Integers, Sequences, FiniteSets, TLC

\* ------------------------------------------------------------------ bounds
\* the clock starts at StartTime; the connectors' specification follows it
\* for ConnHorizon units
StartTime == 300
ConnHorizon == 1
\* frames the two connectors receive in one run
MaxMsgs == 2
\* consecutive failures explored by the connection life-cycle specification
MaxTries == 16
\* consecutive failures explored where messages are modelled too
ConnTries == 1
\* seconds of wall clock the reporter's specification follows
EvalSeconds == 1
\* two-second steps of wall clock the staleness specification follows
StaleSteps == 5
\* thirds of the cache's time-to-live the fee specification follows
FeeSteps == 3
\* steps of wall clock, each longer than STALE_SECS, followed where
\* connections are lost while quotes go stale
DownSteps == 2

\* ------------------------------------------------------------- constants
TicksPerSec == 4
BackoffBase == 5
BackoffCap == 20
\* asyncio.sleep(0.25) of the reporter, in clock units
TickPeriod == 1
HB_SECS == 5
WARN_SECS == 3
STALE_SECS == 5
PROFIT_ALERT == 0
FEE_REFRESH_SECS == 60
CACHE_TTL == 3600
\* fee rates are held in units of 1 / FeeScale
FeeScale == 10000

\* Python's None, for the optional numeric fields of `state`
None == -1
\* a price field whose text float() rejects
BadNum == -2

Venues == {"kraken", "coinbase"}

BidPrices == {10000, 10080}
AskPrices == {10010, 10090}

VARIABLES
    now,              \* time.time(), in 250 ms units
    state,            \* the module-level `state` dict
    pc,               \* where each connector coroutine is suspended
    reconnect_tries,  \* local of each connector loop
    delay,            \* local of each connector loop (seconds); 0 = not yet assigned
    cause,            \* how the open connection ended, while its context exits
    rpc,              \* where the reporter coroutine is suspended
    wake,             \* end of the reporter's asyncio.sleep
    last_warn_missing, last_warn_stale, last_hb,   \* locals of reporter_loop
    _current_fees, _last_fee_refresh,              \* module-level fee cache of the reporter
    env,              \* per venue, the credentials in the process environment
    _cache,           \* FeeCache._cache
    fee_now,          \* local `now` of ensure_fees (0 outside the call)
    kr,               \* local `kr` of ensure_fees (NoFees outside the call)
    last_call,        \* per venue, when fee_cache.get_fees was last invoked
    last_lookup,      \* per venue, when the latest request of a fee lookup ended
    out,              \* the log lines of the reporter's latest step
    shutdown          \* the tasks gathered by main() have been cancelled

connVars == <<state, pc, reconnect_tries, delay, cause>>
repVars == <<rpc, wake, last_warn_missing, last_warn_stale, last_hb, _current_fees,
             _last_fee_refresh, env, _cache, fee_now, kr, last_call, last_lookup, out, shutdown>>
vars == <<now, connVars, repVars>>

Min(a, b) == IF a < b THEN a ELSE b

\* ------------------------------------------------------------ wire formats
\* float(x) of a price field: Ok(value) or Raise
Ok(v) == [ok |-> TRUE, val |-> v]
Raise == [ok |-> FALSE, val |-> None]

ParseFloat(x) == IF x = BadNum THEN Raise ELSE Ok(x)

\* One side of a Kraken book message: the list `levels` seen through its head.
\*   "empty"  no levels (or the key is absent)
\*   "dict"   head is {"price": price, ...}
\*   "pair"   head is [price, qty]
\*   "other"  head is anything else
EmptyLevels == [form |-> "empty", price |-> None]
OtherLevels == [form |-> "other", price |-> None]

Lowest(prices) == CHOOSE p \in prices : \A q \in prices : p <= q

KrakenLevels(prices) ==
    {EmptyLevels, OtherLevels}
      \cup [form : {"dict"}, price : prices \cup {BadNum}]
      \cup {[form |-> "pair", price |-> Lowest(prices)]}

\* Kraken frames by shape:
\*   "undecodable"  json.loads raises
\*   "list"         a JSON array
\*   "scalar"       a JSON number / null
\*   "event"        heartbeat or subscription acknowledgment (no "data")
\*   "error"        an error frame (a dict with no "data")
\*   "data_scalar"  "data" is truthy but not a list
\*   "data0_scalar" "data"[0] is not an object
\*   "book"         "data"[0] is an object with bids / asks
KrakenPlain(shape) == [shape |-> shape, bids |-> EmptyLevels, asks |-> EmptyLevels]

KrakenMsgs ==
    {KrakenPlain(s) : s \in {"undecodable", "list", "scalar", "event", "error",
                             "data_scalar", "data0_scalar"}}
      \cup [shape : {"book"}, bids : KrakenLevels(BidPrices),
             asks : KrakenLevels(AskPrices) \ {OtherLevels}]

top_price(levels) ==
    CASE levels.form = "empty" -> Ok(None)
      [] levels.form = "dict"  -> ParseFloat(levels.price)
      [] levels.form = "pair"  -> ParseFloat(levels.price)
      [] OTHER                 -> Ok(None)

\* KrakenApply with `elif` for the ask: an ask that comes with a bid is dropped
KrakenApply_ElifAsk(rec, new_bid, new_ask, t) ==
    LET r1 == IF new_bid # None THEN [rec EXCEPT !.bid = new_bid]
              ELSE IF new_ask # None THEN [rec EXCEPT !.ask = new_ask]
              ELSE rec
        updated == new_bid # None \/ new_ask # None
    IN IF updated THEN [r1 EXCEPT !.last_ts = t] ELSE r1

\* the venue record after a Kraken frame (lines 132-177), and whether an
\* exception left the `async for`
KrakenApply(rec, new_bid, new_ask, t) ==
    LET r1 == IF new_bid # None THEN [rec EXCEPT !.bid = new_bid] ELSE rec
        r2 == IF new_ask # None THEN [r1 EXCEPT !.ask = new_ask] ELSE r1
        updated == new_bid # None \/ new_ask # None
    IN IF updated THEN [r2 EXCEPT !.last_ts = t] ELSE r2

KrakenHandle(rec, m, t) ==
    LET r == [rec EXCEPT !.msgs = @ + 1]
        new_bid == top_price(m.bids)
        new_ask == top_price(m.asks)
    IN CASE m.shape \in {"undecodable", "list", "event", "error"} ->
                [rec |-> r, raised |-> FALSE]
         [] m.shape \in {"scalar", "data_scalar", "data0_scalar"} ->
                [rec |-> r, raised |-> TRUE]
         [] OTHER ->
                IF ~new_bid.ok \/ ~new_ask.ok
                THEN [rec |-> r, raised |-> TRUE]
                ELSE [rec |-> KrakenApply(r, new_bid.val, new_ask.val, t),
                      raised |-> FALSE]

\* A Coinbase tick (an element of ev["tickers"], or the event itself):
\*   form "dict" with best_bid / best_ask (None: absent or empty), or
\*   form "scalar": not an object.
Tick(b, a) == [form |-> "dict", bid |-> b, ask |-> a]
ScalarTick == [form |-> "scalar", bid |-> None, ask |-> None]

GoodTicks == {Tick(10000, 10010), Tick(10080, 10090)}
CoinbaseTicks ==
    GoodTicks \cup {Tick(BadNum, 10010), Tick(10080, BadNum), Tick(None, 10090),
                    ScalarTick}

\* A Coinbase event: "tickers" (a list of ticks), "direct" (the event carries
\* best_bid / best_ask itself: `ticks` holds that one tick) or "scalar".
DirectEvents == {[form |-> "direct", ticks |-> <<t>>] : t \in CoinbaseTicks \ {ScalarTick}}
CoinbaseEvents ==
    DirectEvents
      \cup {[form |-> "scalar", ticks |-> <<>>]}
      \cup {[form |-> "tickers", ticks |-> <<t>>] : t \in CoinbaseTicks}
      \cup {[form |-> "tickers", ticks |-> <<Tick(10000, 10010), t>>] : t \in CoinbaseTicks}

\* Coinbase frames by shape:
\*   "undecodable"  json.loads raises
\*   "nondict"      a JSON array / number / null
\*   "ack"          type "subscriptions"
\*   "error"        type "error"
\*   "other"        any other object
\*   "noiter"       channel "ticker" whose "events" is not a list
\*   "ticker"       channel "ticker" with a list of events
CoinbasePlain(shape) == [shape |-> shape, events |-> <<>>]

CoinbaseMsgs ==
    {CoinbasePlain(s) : s \in {"undecodable", "nondict", "ack", "error", "other", "noiter"}}
      \cup {[shape |-> "ticker", events |-> <<e>>] : e \in CoinbaseEvents}
      \cup {[shape |-> "ticker",
              events |-> <<[form |-> "direct", ticks |-> <<Tick(10080, 10090)>>], e>>] :
                 e \in DirectEvents}

\* lines 220-227 / 229-236: one tick applied to the running record
CoinbaseTick(acc, t) ==
    IF acc.raised THEN acc
    ELSE IF t.form = "scalar" THEN [acc EXCEPT !.raised = TRUE]
    ELSE IF t.bid = None \/ t.ask = None THEN acc
    ELSE LET fb == ParseFloat(t.bid)
             fa == ParseFloat(t.ask)
         IN IF ~fb.ok THEN acc
            ELSE IF ~fa.ok THEN [acc EXCEPT !.rec.bid = fb.val]
            ELSE [acc EXCEPT !.rec.bid = fb.val, !.rec.ask = fa.val, !.updated = TRUE]

RECURSIVE CoinbaseTicksLoop(_, _)
CoinbaseTicksLoop(acc, ticks) ==
    IF ticks = <<>> THEN acc
    ELSE CoinbaseTicksLoop(CoinbaseTick(acc, Head(ticks)), Tail(ticks))

\* lines 216-236: one event
CoinbaseEvent(acc, ev) ==
    IF acc.raised THEN acc
    ELSE IF ev.form = "scalar" THEN [acc EXCEPT !.raised = TRUE]
    ELSE CoinbaseTicksLoop(acc, ev.ticks)

RECURSIVE CoinbaseEventsLoop(_, _)
CoinbaseEventsLoop(acc, events) ==
    IF events = <<>> THEN acc
    ELSE CoinbaseEventsLoop(CoinbaseEvent(acc, Head(events)), Tail(events))

\* lines 206-243: the venue record after a Coinbase frame
CoinbaseStamp(acc, t) ==
    IF ~acc.raised /\ acc.updated THEN [acc.rec EXCEPT !.last_ts = t] ELSE acc.rec

CoinbaseHandle(rec, m, t) ==
    LET r == [rec EXCEPT !.msgs = @ + 1]
        acc == CoinbaseEventsLoop([rec |-> r, updated |-> FALSE, raised |-> FALSE], m.events)
    IN CASE m.shape \in {"undecodable", "ack", "error", "other"} ->
                [rec |-> r, raised |-> FALSE]
         [] m.shape \in {"nondict", "noiter"} ->
                [rec |-> r, raised |-> TRUE]
         [] OTHER ->
                [rec |-> CoinbaseStamp(acc, t), raised |-> acc.raised]

Msgs(v) == IF v = "kraken" THEN KrakenMsgs ELSE CoinbaseMsgs
Handle(v, rec, m, t) == IF v = "kraken" THEN KrakenHandle(rec, m, t) ELSE CoinbaseHandle(rec, m, t)

\* ----------------------------------------------------------- quote frames
RECURSIVE TicksOf(_)
TicksOf(events) ==
    IF events = <<>> THEN <<>> ELSE Head(events).ticks \o TicksOf(Tail(events))

Numeric(x) == x # None /\ x # BadNum
Quoted(levels) == levels.form \in {"dict", "pair"}

\* a Kraken book frame whose sides are empty or carry a numeric price, with at
\* least one price
KrakenValid(m) ==
    /\ m.shape = "book"
    /\ \A l \in {m.bids, m.asks} : l.form = "empty" \/ (Quoted(l) /\ Numeric(l.price))
    /\ Quoted(m.bids) \/ Quoted(m.asks)

\* a Coinbase ticker frame all of whose ticks carry a numeric bid and ask
CoinbaseValid(m) ==
    /\ m.shape = "ticker"
    /\ \A i \in 1..Len(m.events) : m.events[i].form \in {"tickers", "direct"}
    /\ TicksOf(m.events) # <<>>
    /\ \A i \in 1..Len(TicksOf(m.events)) :
          LET t == TicksOf(m.events)[i]
          IN t.form = "dict" /\ Numeric(t.bid) /\ Numeric(t.ask)

LastTick(m) == TicksOf(m.events)[Len(TicksOf(m.events))]

KrakenValidMsgs == {m \in KrakenMsgs : KrakenValid(m)}
CoinbaseValidMsgs == {m \in CoinbaseMsgs : CoinbaseValid(m)}

ValidMsgs(v) == IF v = "kraken" THEN KrakenValidMsgs ELSE CoinbaseValidMsgs

\* ------------------------------------------------------------- connectors
EmptyQuote == [bid |-> None, ask |-> None, last_ts |-> None, msgs |-> 0, connected |-> FALSE]

\* Backoff without the cap
Backoff_NoCap(tries) == BackoffBase + tries

\* lines 186-187 / 252-253
Backoff(tries) == Min(BackoffBase + tries, BackoffCap)

\* How an open connection can end (`cause`):
\*   "eof"        the message iterator ends (the peer closed normally)
\*   "closed"     ConnectionClosedOK or ConnectionClosedError is raised
\*   "exception"  any other Exception is raised

\* Disconnect that drops the quote with the connection
Disconnect_ClearsQuote(rec, c) ==
    IF c \in {"closed", "exception"}
    THEN [rec EXCEPT !.connected = FALSE, !.bid = None, !.ask = None, !.last_ts = None]
    ELSE rec

\* lines 179-184 / 245-250: the except clauses
Disconnect(rec, c) ==
    IF c \in {"closed", "exception"}
    THEN [rec EXCEPT !.connected = FALSE]
    ELSE rec

\* EndAttempt with the delay computed before the counter is incremented
EndAttempt_DelayFirst(v, c) ==
    /\ state' = [state EXCEPT ![v] = Disconnect(@, c)]
    /\ reconnect_tries' = [reconnect_tries EXCEPT ![v] = @ + 1]
    /\ delay' = [delay EXCEPT ![v] = Backoff(reconnect_tries[v])]
    /\ pc' = [pc EXCEPT ![v] = "backoff"]
    /\ cause' = [cause EXCEPT ![v] = "none"]

\* lines 179-189 / 245-255: except clauses, then the backoff is computed and
\* the coroutine suspends in asyncio.sleep(delay)
EndAttempt(v, c) ==
    /\ state' = [state EXCEPT ![v] = Disconnect(@, c)]
    /\ reconnect_tries' = [reconnect_tries EXCEPT ![v] = @ + 1]
    /\ delay' = [delay EXCEPT ![v] = Backoff(reconnect_tries[v] + 1)]
    /\ pc' = [pc EXCEPT ![v] = "backoff"]
    /\ cause' = [cause EXCEPT ![v] = "none"]

\* ConnectOk that marks every venue's record connected
ConnectOk_AllVenues(v) ==
    /\ pc[v] = "connecting"
    /\ state' = [w \in Venues |-> [state[w] EXCEPT !.connected = TRUE]]
    /\ reconnect_tries' = [reconnect_tries EXCEPT ![v] = 0]
    /\ pc' = [pc EXCEPT ![v] = "subscribing"]
    /\ UNCHANGED <<repVars, now, delay, cause>>

\* websockets.connect succeeds: lines 113-115 / 198-200, up to the await of send
ConnectOk(v) ==
    /\ pc[v] = "connecting"
    /\ state' = [state EXCEPT ![v].connected = TRUE]
    /\ reconnect_tries' = [reconnect_tries EXCEPT ![v] = 0]
    /\ pc' = [pc EXCEPT ![v] = "subscribing"]
    /\ UNCHANGED <<repVars, now, delay, cause>>

\* websockets.connect raises (refused, handshake, timeout)
ConnectFail(v, maxTries) ==
    /\ pc[v] = "connecting"
    /\ reconnect_tries[v] < maxTries
    /\ EndAttempt(v, "exception")
    /\ UNCHANGED <<repVars, now>>

\* ws.send of the subscription returns: lines 126-131 / 202-205
SubscribeOk(v) ==
    /\ pc[v] = "subscribing"
    /\ pc' = [pc EXCEPT ![v] = "receiving"]
    /\ UNCHANGED <<repVars, now, state, reconnect_tries, delay, cause>>

\* ws.send raises; the connection context starts to exit
SubscribeFail(v, c) ==
    /\ pc[v] = "subscribing"
    /\ c \in {"closed", "exception"}
    /\ pc' = [pc EXCEPT ![v] = "closing"]
    /\ cause' = [cause EXCEPT ![v] = c]
    /\ UNCHANGED <<repVars, now, state, reconnect_tries, delay>>

\* one frame from the stream: the body of `async for raw in ws`
Receive(v, m) ==
    /\ pc[v] = "receiving"
    /\ state["kraken"].msgs + state["coinbase"].msgs < MaxMsgs
    /\ LET h == Handle(v, state[v], m, now)
       IN /\ state' = [state EXCEPT ![v] = h.rec]
          /\ pc' = [pc EXCEPT ![v] = IF h.raised THEN "closing" ELSE "receiving"]
          /\ cause' = [cause EXCEPT ![v] = IF h.raised THEN "exception" ELSE "none"]
    /\ UNCHANGED <<repVars, now, reconnect_tries, delay>>

\* the stream ends: the iterator stops (normal close) or raises
\* ConnectionClosedError (abnormal close)
StreamEnd(v, c) ==
    /\ pc[v] = "receiving"
    /\ c \in {"eof", "closed"}
    /\ pc' = [pc EXCEPT ![v] = "closing"]
    /\ cause' = [cause EXCEPT ![v] = c]
    /\ UNCHANGED <<repVars, now, state, reconnect_tries, delay>>

\* Closed with except clauses that catch the cancellation too
Closed_AbsorbsCancel(v) ==
    /\ pc[v] = "closing"
    /\ EndAttempt(v, IF cause[v] = "cancelled" THEN "exception" ELSE cause[v])
    /\ UNCHANGED <<repVars, now>>

\* the connection context has exited: except clauses and backoff; a
\* CancelledError is no Exception, matches neither clause and ends the task
Closed(v) ==
    /\ pc[v] = "closing"
    /\ IF cause[v] = "cancelled"
       THEN /\ pc' = [pc EXCEPT ![v] = "done"]
            /\ cause' = [cause EXCEPT ![v] = "none"]
            /\ UNCHANGED <<state, reconnect_tries, delay>>
       ELSE EndAttempt(v, cause[v])
    /\ UNCHANGED <<repVars, now>>

\* BackoffDone with a retry limit: the loop is left after three failures in a row
BackoffDone_RetryLimit(v) ==
    /\ pc[v] = "backoff"
    /\ pc' = [pc EXCEPT ![v] = IF reconnect_tries[v] >= 3 THEN "stopped" ELSE "connecting"]
    /\ UNCHANGED <<repVars, now, state, reconnect_tries, delay, cause>>

\* asyncio.sleep(delay) returns: next iteration of `while True`.  `delay`
\* holds the time asked for; the step itself may come at any later moment.
BackoffDone(v) ==
    /\ pc[v] = "backoff"
    /\ pc' = [pc EXCEPT ![v] = "connecting"]
    /\ UNCHANGED <<repVars, now, state, reconnect_tries, delay, cause>>

\* ------------------------------------------------------------- fee cache
\* a fee dict {"taker": .., "maker": ..}; NoFees stands for None
Fees(t, m) == [taker |-> t, maker |-> m]
NoFees == Fees(None, None)

\* fees.py DEFAULT_FEES
DEFAULT_FEES == [kraken |-> Fees(26, 16), coinbase |-> Fees(60, 40)]

\* The credentials a venue finds in the environment:
\*   "absent"          neither the key id nor the secret / private key is set
\*   "partial_id"      only the key id is set
\*   "partial_secret"  only the secret / private key is set
\*   "invalid"         both are set; the secret is no base64 / no PEM
\*   "rejected"        both are set and well formed; the venue refuses them
\*   "valid"           both are set and accepted
Creds == {"absent", "partial_id", "partial_secret", "invalid", "rejected", "valid"}

\* How the HTTP request ends
Nets == {"success", "error", "timeout"}

\* The body of a response:
\*   "well_formed"    taker and maker rates where the code looks for them
\*   "taker_only"     the maker rate is left out
\*   "error_payload"  the venue's error object
\*   "no_fees"        a JSON object without the fee fields
\*   "bad_rate"       the fee fields hold text that float() rejects
\*   "not_json"       r.json() raises
\*   "nondict"        valid JSON that is no object (array, number, null)
AllPayloads == {"well_formed", "taker_only", "error_payload", "no_fees", "bad_rate",
                "not_json", "nondict"}

\* a venue never answers refused credentials with fee rates
Bodies(c, payloads) ==
    IF c = "rejected" THEN payloads \ {"well_formed", "taker_only"} ELSE payloads

\* the bodies followed where the reporter runs next to the connectors: one
\* for each way a lookup can end
Payloads(c) == Bodies(c, {"well_formed", "error_payload", "nondict"})

\* the rates the venues quote in a well-formed body: Kraken in hundredths of a
\* percent ("0.10" is 10), Coinbase as a fraction in units of 1 / FeeScale
WireTaker == 10
WireMaker == 10

\* fees.py lines 134-135: percent / 100.0, from hundredths of a percent to
\* units of 1 / FeeScale
KrakenRate(pct) == (pct * FeeScale) \div (100 * 100)

\* KrakenAuth.from_env (auth_kraken.py 18-22) / CoinbaseAdvAuth.from_env
\* (auth_coinbase.py 45-48: pem.replace on a missing private key): TRUE if it
\* returns, FALSE if it raises
from_env(v, c) ==
    IF v = "kraken" THEN c \notin {"absent", "partial_id", "partial_secret"}
    ELSE c \notin {"absent", "partial_id"}

\* KrakenAuth.sign (b64decode of the secret, auth_kraken.py 31) /
\* CoinbaseAdvAuth.sign (_require, SigningKey.from_pem, auth_coinbase.py 62-69):
\* TRUE if it returns, FALSE if it raises
sign(v, c) ==
    IF v = "kraken" THEN c # "invalid"
    ELSE c \notin {"partial_secret", "invalid"}

\* fees.py lines 102-108 / 144-152, the part of a lookup before the request:
\* "defaults" (returned at once), "raise" or "request"
Prepare(v, c) ==
    IF ~from_env(v, c) THEN "defaults"
    ELSE IF ~sign(v, c) THEN "raise"
    ELSE "request"

Returned(f) == [raised |-> FALSE, fees |-> f]
Raised == [raised |-> TRUE, fees |-> NoFees]

\* fees.py lines 110-136: the Kraken lookup from the response on
_kraken_fees(net, payload) ==
    CASE net # "success"            -> Returned(DEFAULT_FEES["kraken"])
      [] payload = "not_json"       -> Returned(DEFAULT_FEES["kraken"])
      [] payload = "nondict"        -> Raised
      [] payload = "error_payload"  -> Returned(DEFAULT_FEES["kraken"])
      [] payload = "well_formed"    -> Returned(Fees(KrakenRate(WireTaker), KrakenRate(WireMaker)))
      [] payload = "taker_only"     -> Returned(Fees(KrakenRate(WireTaker),
                                                     DEFAULT_FEES["kraken"].maker))
      [] OTHER                      -> Returned(DEFAULT_FEES["kraken"])

\* fees.py lines 154-173: the Coinbase lookup from the response on
_coinbase_adv_fees(net, payload) ==
    CASE net # "success"            -> Returned(DEFAULT_FEES["coinbase"])
      [] payload = "not_json"       -> Returned(DEFAULT_FEES["coinbase"])
      [] payload = "nondict"        -> Raised
      [] payload = "well_formed"    -> Returned(Fees(WireTaker, WireMaker))
      [] payload = "taker_only"     -> Returned(Fees(WireTaker, DEFAULT_FEES["coinbase"].maker))
      [] OTHER                      -> Returned(DEFAULT_FEES["coinbase"])

Response(v, net, payload) ==
    IF v = "kraken" THEN _kraken_fees(net, payload) ELSE _coinbase_adv_fees(net, payload)

\* FeeCache._cache: per venue the stored dict and the time it was stored;
\* fees = NoFees stands for a missing key
NoEntry == [fees |-> NoFees, ts |-> 0]

\* fees.py lines 59-66
_get_cached(cache, v, t) ==
    IF cache[v].fees = NoFees THEN NoFees
    ELSE IF t - cache[v].ts < CACHE_TTL * TicksPerSec THEN cache[v].fees
    ELSE NoFees

\* fees.py lines 68-69
_set_cached(cache, v, f, t) == [cache EXCEPT ![v] = [fees |-> f, ts |-> t]]

\* --------------------------------------------------------------- reporter
NoOut == [hb |-> FALSE, fees |-> FALSE, fees_warn |-> FALSE, missing |-> FALSE,
          stale |-> <<>>, alerts |-> {}, spread |-> <<>>]

\* net_spread_buyA_sellB with the fees' signs exchanged
net_spread_FeeSigns(askA, taker_fee_A, bidB, taker_fee_B) ==
    bidB * (FeeScale + taker_fee_B) - askA * (FeeScale - taker_fee_A)

\* lines 98-105, scaled by FeeScale
net_spread_buyA_sellB(askA, taker_fee_A, bidB, taker_fee_B) ==
    bidB * (FeeScale - taker_fee_B) - askA * (FeeScale + taker_fee_A)

\* have_all with any() for all()
have_all_Any(k, c) == \E x \in {k.bid, k.ask, c.bid, c.ask} : x # None

\* line 305
have_all(k, c) == \A x \in {k.bid, k.ask, c.bid, c.ask} : x # None

\* MissingWarn without the rate limit
MissingWarn_NoRateLimit(have, t, last_warn) == ~have

\* line 306
MissingWarn(have, t, last_warn) == ~have /\ t - last_warn > WARN_SECS * TicksPerSec

\* StaleWarn without the rate limit
StaleWarn_NoRateLimit(last_ts, t, last_warn) ==
    last_ts # None /\ t - last_ts > STALE_SECS * TicksPerSec

\* line 316
StaleWarn(last_ts, t, last_warn) ==
    /\ last_ts # None
    /\ t - last_ts > STALE_SECS * TicksPerSec
    /\ t - last_warn > WARN_SECS * TicksPerSec

\* Evaluate that computes no spread while a quote is stale or a venue is
\* disconnected
Evaluate_FreshOnly(fees, o) ==
    LET k == state["kraken"]
        c == state["coinbase"]
        have == have_all(k, c)
        miss == MissingWarn(have, now, last_warn_missing)
        k_stale == StaleWarn(k.last_ts, now, last_warn_stale)
        lws == IF k_stale THEN now ELSE last_warn_stale
        c_stale == StaleWarn(c.last_ts, now, lws)
        fresh == \A v \in Venues :
                    /\ state[v].connected
                    /\ state[v].last_ts # None
                    /\ now - state[v].last_ts <= STALE_SECS * TicksPerSec
        compute == have /\ fresh /\ fees["kraken"] # NoFees /\ fees["coinbase"] # NoFees
        kf == fees["kraken"].taker
        cbf == fees["coinbase"].taker
        a_to_b == net_spread_buyA_sellB(k.ask, kf, c.bid, cbf)
        b_to_a == net_spread_buyA_sellB(c.ask, cbf, k.bid, kf)
    IN /\ last_warn_missing' = IF miss THEN now ELSE last_warn_missing
       /\ last_warn_stale' = IF c_stale THEN now ELSE lws
       /\ out' = [o EXCEPT
                    !.missing = miss,
                    !.stale = (IF k_stale THEN <<"kraken">> ELSE <<>>)
                                \o (IF c_stale THEN <<"coinbase">> ELSE <<>>),
                    !.alerts = IF compute
                               THEN {d \in {"K->CB"} : a_to_b > PROFIT_ALERT * FeeScale}
                                      \cup {d \in {"CB->K"} : b_to_a > PROFIT_ALERT * FeeScale}
                               ELSE {},
                    !.spread = IF compute THEN <<a_to_b, b_to_a>> ELSE <<>>]
       /\ rpc' = "sleeping"
       /\ wake' = now + TickPeriod

\* lines 304-340: the rest of a tick after ensure_fees, run without suspension
\* at time `now` with the fee cache `fees`; `o` holds the lines already logged
Evaluate(fees, o) ==
    LET k == state["kraken"]
        c == state["coinbase"]
        have == have_all(k, c)
        miss == MissingWarn(have, now, last_warn_missing)
        k_stale == StaleWarn(k.last_ts, now, last_warn_stale)
        lws == IF k_stale THEN now ELSE last_warn_stale
        c_stale == StaleWarn(c.last_ts, now, lws)
        compute == have /\ fees["kraken"] # NoFees /\ fees["coinbase"] # NoFees
        kf == fees["kraken"].taker
        cbf == fees["coinbase"].taker
        a_to_b == net_spread_buyA_sellB(k.ask, kf, c.bid, cbf)
        b_to_a == net_spread_buyA_sellB(c.ask, cbf, k.bid, kf)
    IN /\ last_warn_missing' = IF miss THEN now ELSE last_warn_missing
       /\ last_warn_stale' = IF c_stale THEN now ELSE lws
       /\ out' = [o EXCEPT
                    !.missing = miss,
                    !.stale = (IF k_stale THEN <<"kraken">> ELSE <<>>)
                                \o (IF c_stale THEN <<"coinbase">> ELSE <<>>),
                    !.alerts = IF compute
                               THEN {d \in {"K->CB"} : a_to_b > PROFIT_ALERT * FeeScale}
                                      \cup {d \in {"CB->K"} : b_to_a > PROFIT_ALERT * FeeScale}
                               ELSE {},
                    !.spread = IF compute THEN <<a_to_b, b_to_a>> ELSE <<>>]
       /\ rpc' = "sleeping"
       /\ wake' = now + TickPeriod

\* line 296
Heartbeat == now - last_hb > HB_SECS * TicksPerSec

\* line 264: ensure_fees returns at once
FeesFresh == now - _last_fee_refresh < FEE_REFRESH_SECS * TicksPerSec

\* fees.py lines 79-93 up to the first suspension: a stored value or the
\* defaults are returned at once ("value"), the call raises ("raise"), or the
\* request is sent and the caller suspends ("await")
get_fees(v, cache, t) ==
    LET cached == _get_cached(cache, v, t)
        p == Prepare(v, env[v])
    IN IF cached # NoFees THEN [kind |-> "value", fees |-> cached, cache |-> cache]
       ELSE IF p = "defaults"
            THEN [kind |-> "value", fees |-> DEFAULT_FEES[v],
                  cache |-> _set_cached(cache, v, DEFAULT_FEES[v], t)]
       ELSE IF p = "raise" THEN [kind |-> "raise", fees |-> NoFees, cache |-> cache]
       ELSE [kind |-> "await", fees |-> NoFees, cache |-> cache]

\* RefreshFailed without the except clause: the error leaves ensure_fees and
\* reporter_loop, and the task ends
RefreshFailed_Unhandled(cache, o) ==
    /\ _cache' = cache
    /\ rpc' = "done"
    /\ out' = o
    /\ fee_now' = 0
    /\ kr' = NoFees
    /\ UNCHANGED <<wake, last_warn_missing, last_warn_stale, _current_fees, _last_fee_refresh>>

\* lines 281-282, then the rest of the tick: the refresh has failed
RefreshFailed(cache, o) ==
    /\ _cache' = cache
    /\ Evaluate(_current_fees, [o EXCEPT !.fees_warn = TRUE])
    /\ fee_now' = 0
    /\ kr' = NoFees
    /\ UNCHANGED <<_current_fees, _last_fee_refresh>>

\* lines 270-280, then the rest of the tick: both lookups have returned
RefreshDone(fees, cache, t0, o) ==
    /\ _cache' = cache
    /\ _current_fees' = fees
    /\ _last_fee_refresh' = t0
    /\ Evaluate(fees, [o EXCEPT !.fees = fees # _current_fees])
    /\ fee_now' = 0
    /\ kr' = NoFees

\* CallCoinbase with Kraken's dict stored before Coinbase is asked
CallCoinbase_StoresKraken(krf, cache, t0, o, calls) ==
    LET r == get_fees("coinbase", cache, now)
        early == [_current_fees EXCEPT !["kraken"] = krf]
    IN /\ last_call' = [calls EXCEPT !["coinbase"] = now]
       /\ CASE r.kind = "await" ->
                 /\ rpc' = "fee_coinbase"
                 /\ kr' = krf
                 /\ fee_now' = t0
                 /\ _cache' = cache
                 /\ out' = o
                 /\ _current_fees' = early
                 /\ UNCHANGED <<wake, last_warn_missing, last_warn_stale, _last_fee_refresh>>
            [] r.kind = "raise" ->
                 /\ _cache' = cache
                 /\ _current_fees' = early
                 /\ Evaluate(early, [o EXCEPT !.fees_warn = TRUE])
                 /\ fee_now' = 0
                 /\ kr' = NoFees
                 /\ UNCHANGED _last_fee_refresh
            [] OTHER -> RefreshDone([kraken |-> krf, coinbase |-> r.fees], r.cache, t0, o)

\* line 269 on: get_fees("coinbase") is invoked with Kraken's dict in hand
CallCoinbase(krf, cache, t0, o, calls) ==
    LET r == get_fees("coinbase", cache, now)
    IN /\ last_call' = [calls EXCEPT !["coinbase"] = now]
       /\ CASE r.kind = "await" ->
                 /\ rpc' = "fee_coinbase"
                 /\ kr' = krf
                 /\ fee_now' = t0
                 /\ _cache' = cache
                 /\ out' = o
                 /\ UNCHANGED <<wake, last_warn_missing, last_warn_stale, _current_fees,
                                _last_fee_refresh>>
            [] r.kind = "raise" -> RefreshFailed(cache, o)
            [] OTHER -> RefreshDone([kraken |-> krf, coinbase |-> r.fees], r.cache, t0, o)

\* line 268 on: get_fees("kraken") is invoked
CallKraken(t0, o) ==
    LET r == get_fees("kraken", _cache, now)
        calls == [last_call EXCEPT !["kraken"] = now]
    IN CASE r.kind = "await" ->
               /\ rpc' = "fee_kraken"
               /\ fee_now' = t0
               /\ out' = o
               /\ last_call' = calls
               /\ UNCHANGED <<wake, last_warn_missing, last_warn_stale, _current_fees,
                              _last_fee_refresh, kr, _cache>>
         [] r.kind = "raise" -> RefreshFailed(_cache, o) /\ last_call' = calls
         [] OTHER -> CallCoinbase(r.fees, r.cache, t0, o, calls)

\* a tick whose ensure_fees returns at once: lines 292-340 in one step
TickNoRefresh ==
    /\ rpc = "sleeping" /\ now >= wake
    /\ FeesFresh
    /\ last_hb' = IF Heartbeat THEN now ELSE last_hb
    /\ Evaluate(_current_fees, [NoOut EXCEPT !.hb = Heartbeat])
    /\ UNCHANGED <<now, connVars, shutdown, env, _cache, _current_fees, _last_fee_refresh, fee_now, kr,
                   last_call, last_lookup>>

\* a tick whose ensure_fees refreshes: lines 292-302 and 263-268, and as far
\* as the lookups go without suspending
TickRefresh ==
    /\ rpc = "sleeping" /\ now >= wake
    /\ ~FeesFresh
    /\ last_hb' = IF Heartbeat THEN now ELSE last_hb
    /\ CallKraken(now, [NoOut EXCEPT !.hb = Heartbeat])
    /\ UNCHANGED <<now, connVars, shutdown, env, last_lookup>>

\* the request of get_fees("kraken") ends (fees.py 112-136, 92-93)
FeeKrakenReturn(net, payload) ==
    /\ rpc = "fee_kraken"
    /\ LET r == Response("kraken", net, payload)
       IN IF r.raised
          THEN RefreshFailed(_cache, out) /\ UNCHANGED last_call
          ELSE CallCoinbase(r.fees, _set_cached(_cache, "kraken", r.fees, now), fee_now,
                            out, last_call)
    /\ last_lookup' = [last_lookup EXCEPT !["kraken"] = now]
    /\ UNCHANGED <<now, connVars, shutdown, env, last_hb>>

\* the request of get_fees("coinbase") ends (fees.py 156-173, 92-93)
FeeCoinbaseReturn(net, payload) ==
    /\ rpc = "fee_coinbase"
    /\ LET r == Response("coinbase", net, payload)
       IN IF r.raised
          THEN RefreshFailed(_cache, out)
          ELSE RefreshDone([kraken |-> kr, coinbase |-> r.fees],
                           _set_cached(_cache, "coinbase", r.fees, now), fee_now, out)
    /\ last_lookup' = [last_lookup EXCEPT !["coinbase"] = now]
    /\ UNCHANGED <<now, connVars, shutdown, env, last_hb, last_call>>

Reporter ==
    \/ TickNoRefresh
    \/ TickRefresh
    \/ \E net \in Nets : \E payload \in Payloads(env["kraken"]) : FeeKrakenReturn(net, payload)
    \/ \E net \in Nets : \E payload \in Payloads(env["coinbase"]) : FeeCoinbaseReturn(net, payload)

\* --------------------------------------------------------------- shutdown
\* asyncio.run(main()) is interrupted: the main task is cancelled, and the
\* gather it awaits cancels the three tasks at once.  Each task is suspended;
\* the CancelledError is thrown into it when the event loop runs it next.
\*   "cancelling"       suspended outside a connection (connect, backoff sleep)
\*   "cancelling_open"  suspended inside `async with websockets.connect`
Shutdown ==
    /\ ~shutdown
    /\ shutdown' = TRUE
    /\ pc' = [v \in Venues |->
                IF pc[v] \in {"subscribing", "receiving", "closing"}
                THEN "cancelling_open" ELSE "cancelling"]
    /\ rpc' = "cancelling"
    /\ UNCHANGED <<now, state, reconnect_tries, delay, cause, wake, last_warn_missing,
                   last_warn_stale, last_hb, _current_fees, _last_fee_refresh, env, _cache,
                   fee_now, kr, last_call, last_lookup, out>>

\* CancelledError is raised at websockets.connect or asyncio.sleep; it passes
\* both except clauses (lines 179-184 / 245-250) and leaves `while True`
Cancelled(v) ==
    /\ pc[v] = "cancelling"
    /\ pc' = [pc EXCEPT ![v] = "done"]
    /\ UNCHANGED <<repVars, now, state, reconnect_tries, delay, cause>>

\* CancelledError is raised inside the connection context, which starts to exit
CancelledOpen(v) ==
    /\ pc[v] = "cancelling_open"
    /\ pc' = [pc EXCEPT ![v] = "closing"]
    /\ cause' = [cause EXCEPT ![v] = "cancelled"]
    /\ UNCHANGED <<repVars, now, state, reconnect_tries, delay>>

\* CancelledError is raised at asyncio.sleep(0.25) or inside a fee lookup; the
\* `except Exception` clauses of fees.py and of ensure_fees (line 281) let it pass
ReporterCancelled ==
    /\ rpc = "cancelling"
    /\ rpc' = "done"
    /\ fee_now' = 0
    /\ kr' = NoFees
    /\ UNCHANGED <<now, connVars, shutdown, wake, last_warn_missing, last_warn_stale, last_hb,
                   _current_fees, _last_fee_refresh, env, _cache, last_call, last_lookup, out>>

\* -------------------------------------------------------------------- time
\* time.time() moves on by d units; it never runs backwards
Advance(d, horizon) ==
    /\ now + d <= StartTime + horizon
    /\ now' = now + d
    /\ UNCHANGED <<connVars, repVars>>

\* The program never reads the clock but to store it or to compare it with a
\* stored time, so a step in which d units pass can be written either way:
\* the clock moves on by d, or every stored time moves back by d.  Pass takes
\* the second way and leaves a stored time alone once it is older than the
\* period (in seconds) it is compared with: behaviours then go on for ever
\* over finitely many states.
Aged(t, d, period) == IF t < now - period * TicksPerSec THEN t ELSE t - d

AgedOpt(t, d, period) == IF t = None THEN None ELSE Aged(t, d, period)

AgedEntry(e, d) ==
    IF e.fees = NoFees THEN e ELSE [e EXCEPT !.ts = Aged(@, d, CACHE_TTL)]

Pass(d) ==
    /\ state' = [v \in Venues |-> [state[v] EXCEPT !.last_ts = AgedOpt(@, d, STALE_SECS)]]
    /\ wake' = Aged(wake, d, 0)
    /\ last_warn_missing' = Aged(last_warn_missing, d, WARN_SECS)
    /\ last_warn_stale' = Aged(last_warn_stale, d, WARN_SECS)
    /\ last_hb' = Aged(last_hb, d, HB_SECS)
    /\ _last_fee_refresh' = Aged(_last_fee_refresh, d, FEE_REFRESH_SECS)
    /\ fee_now' = Aged(fee_now, d, FEE_REFRESH_SECS)
    /\ _cache' = [v \in Venues |-> AgedEntry(_cache[v], d)]
    /\ last_call' = [v \in Venues |-> AgedOpt(last_call[v], d, FEE_REFRESH_SECS)]
    /\ last_lookup' = [v \in Venues |-> AgedOpt(last_lookup[v], d, CACHE_TTL)]
    /\ UNCHANGED <<now, pc, reconnect_tries, delay, cause, rpc, _current_fees, env, kr, out,
                   shutdown>>

\* time.time() moves on to the next of the moments `points`
AdvanceTo(points) ==
    \E t \in points :
        /\ t > now
        /\ \A u \in points : u > now => t <= u
        /\ now' = t
        /\ UNCHANGED <<connVars, repVars>>

\* the state after the module is loaded, for the credentials `creds`
Boot(creds) ==
    /\ env \in creds
    /\ _cache = [v \in Venues |-> NoEntry]
    /\ now = StartTime
    /\ state = [v \in Venues |-> EmptyQuote]
    /\ pc = [v \in Venues |-> "connecting"]
    /\ reconnect_tries = [v \in Venues |-> 0]
    /\ delay = [v \in Venues |-> 0]
    /\ cause = [v \in Venues |-> "none"]
    /\ rpc = "sleeping"
    /\ wake = StartTime
    /\ last_warn_missing = 0
    /\ last_warn_stale = 0
    /\ last_hb = 0
    /\ _current_fees = [v \in Venues |-> NoFees]
    /\ _last_fee_refresh = 0
    /\ fee_now = 0
    /\ kr = NoFees
    /\ last_call = [v \in Venues |-> None]
    /\ last_lookup = [v \in Venues |-> None]
    /\ out = NoOut
    /\ shutdown = FALSE

\* both venues' credentials are configured and accepted
Init == Boot({[v \in Venues |-> "valid"]})

\* any credentials
InitFees == Boot([Venues -> Creds])

\* the whole program: main() gathers the two connectors and the reporter
Next ==
    \/ \E v \in Venues : ConnectOk(v)
    \/ \E v \in Venues : ConnectFail(v, MaxTries)
    \/ \E v \in Venues : SubscribeOk(v)
    \/ \E v \in Venues, c \in {"closed", "exception"} : SubscribeFail(v, c)
    \/ \E v \in Venues : \E m \in Msgs(v) : Receive(v, m)
    \/ \E v \in Venues, c \in {"eof", "closed"} : StreamEnd(v, c)
    \/ \E v \in Venues : Closed(v)
    \/ \E v \in Venues : BackoffDone(v)
    \/ Reporter
    \/ Shutdown
    \/ \E v \in Venues : Cancelled(v)
    \/ \E v \in Venues : CancelledOpen(v)
    \/ ReporterCancelled
    \/ Advance(1, EvalSeconds * TicksPerSec)

Spec == Init /\ [][Next]_vars

\* The specifications below each follow a part of the program, so that the
\* state space stays small where the other part has no bearing.

\* the connectors with their message streams
NextConn ==
    \/ \E v \in Venues : ConnectOk(v)
    \/ \E v \in Venues : ConnectFail(v, ConnTries)
    \/ \E v \in Venues : SubscribeOk(v)
    \/ \E v \in Venues, c \in {"closed", "exception"} : SubscribeFail(v, c)
    \/ \E v \in Venues : \E m \in Msgs(v) : Receive(v, m)
    \/ \E v \in Venues, c \in {"eof", "closed"} : StreamEnd(v, c)
    \/ \E v \in Venues : Closed(v)
    \/ \E v \in Venues : BackoffDone(v)
    \/ Advance(1, ConnHorizon)

SpecConn == Init /\ [][NextConn]_vars

\* the connection life cycle alone, up to MaxTries consecutive failures
NextBackoff ==
    \/ \E v \in Venues : ConnectOk(v)
    \/ \E v \in Venues : ConnectFail(v, MaxTries)
    \/ \E v \in Venues : SubscribeOk(v)
    \/ \E v \in Venues, c \in {"closed", "exception"} : SubscribeFail(v, c)
    \/ \E v \in Venues, c \in {"eof", "closed"} : StreamEnd(v, c)
    \/ \E v \in Venues : Closed(v)
    \/ \E v \in Venues : BackoffDone(v)

SpecBackoff == Init /\ [][NextBackoff]_vars

\* the reporter, with connectors that stay up or are lost once they hold a
\* connection; the clock moves in whole seconds
NextEval ==
    \/ Reporter
    \/ \E v \in Venues : ConnectOk(v)
    \/ \E v \in Venues : SubscribeOk(v)
    \/ \E v \in Venues : \E m \in ValidMsgs(v) : Receive(v, m)
    \/ \E v \in Venues : StreamEnd(v, "closed")
    \/ \E v \in Venues : Closed(v)
    \/ Advance(TicksPerSec, EvalSeconds * TicksPerSec)

SpecEval == Init /\ [][NextEval]_vars

\* the reporter next to connectors that receive frames of every shape
NextRead ==
    \/ Reporter
    \/ \E v \in Venues : ConnectOk(v)
    \/ \E v \in Venues : SubscribeOk(v)
    \/ \E v \in Venues : \E m \in Msgs(v) : Receive(v, m)
    \/ \E v \in Venues : Closed(v)
    \/ Advance(TickPeriod, ConnHorizon)

SpecRead == Init /\ [][NextRead]_vars

\* one quote frame per venue, for the specification that follows the clock
\* long enough for quotes to go stale
OneQuote(v) ==
    IF v = "kraken"
    THEN {[shape |-> "book", bids |-> [form |-> "dict", price |-> 10000],
                             asks |-> [form |-> "dict", price |-> 10010]]}
    ELSE {[shape |-> "ticker",
           events |-> <<[form |-> "direct", ticks |-> <<Tick(10080, 10090)>>]>>]}

\* the reporter over a longer time: the clock moves in steps of two seconds
NextStale ==
    \/ Reporter
    \/ \E v \in Venues : ConnectOk(v)
    \/ \E v \in Venues : SubscribeOk(v)
    \/ \E v \in Venues : \E m \in OneQuote(v) : Receive(v, m)
    \/ Advance(2 * TicksPerSec, StaleSteps * 2 * TicksPerSec)

SpecStale == Init /\ [][NextStale]_vars

\* the reporter alone under any credentials, every response body, and a clock
\* that is followed for two ticks every third of the cache's time-to-live
FeeStep == (CACHE_TTL * TicksPerSec) \div 3

FeePoints == {StartTime + k * FeeStep + j * TickPeriod : k \in 0..FeeSteps, j \in 0..1}

NextFees ==
    \/ TickNoRefresh
    \/ TickRefresh
    \/ \E net \in Nets : \E payload \in Bodies(env["kraken"], AllPayloads) :
          FeeKrakenReturn(net, payload)
    \/ \E net \in Nets : \E payload \in Bodies(env["coinbase"], AllPayloads) :
          FeeCoinbaseReturn(net, payload)
    \/ AdvanceTo(FeePoints)

SpecFees == InitFees /\ [][NextFees]_vars

\* the reporter with connections that are lost, the clock moving in steps
\* longer than STALE_SECS
DownStep == (STALE_SECS + 1) * TicksPerSec

NextDown ==
    \/ Reporter
    \/ \E v \in Venues : ConnectOk(v)
    \/ \E v \in Venues : SubscribeOk(v)
    \/ \E v \in Venues : \E m \in OneQuote(v) : Receive(v, m)
    \/ \E v \in Venues : StreamEnd(v, "closed")
    \/ \E v \in Venues : Closed(v)
    \/ Advance(DownStep, DownSteps * DownStep)

SpecDown == Init /\ [][NextDown]_vars

\* the three tasks side by side, every step of each of them, up to and
\* through cancellation
NextTasks ==
    \/ \E v \in Venues : ConnectOk(v)
    \/ \E v \in Venues : ConnectFail(v, ConnTries)
    \/ \E v \in Venues : SubscribeOk(v)
    \/ \E v \in Venues, c \in {"closed", "exception"} : SubscribeFail(v, c)
    \/ \E v \in Venues : \E m \in OneQuote(v) : Receive(v, m)
    \/ \E v \in Venues, c \in {"eof", "closed"} : StreamEnd(v, c)
    \/ \E v \in Venues : Closed(v)
    \/ \E v \in Venues : BackoffDone(v)
    \/ Reporter
    \/ Shutdown
    \/ \E v \in Venues : Cancelled(v)
    \/ \E v \in Venues : CancelledOpen(v)
    \/ ReporterCancelled
    \/ Advance(TicksPerSec, EvalSeconds * TicksPerSec)

SpecTasks == Init /\ [][NextTasks]_vars

\* the reporter for ever: one quote frame per venue and time that passes in
\* steps of two seconds.  Kraken's secret is no base64, so every refresh fails
\* before a request is sent: no tick suspends and FeeCache stays empty.
StaleStep == 2 * TicksPerSec

InitAging == Boot({[v \in Venues |-> IF v = "kraken" THEN "invalid" ELSE "valid"]})

NextAging ==
    \/ TickRefresh
    \/ \E v \in Venues : ConnectOk(v)
    \/ \E v \in Venues : SubscribeOk(v)
    \/ \E v \in Venues : \E m \in OneQuote(v) : Receive(v, m)
    \/ Pass(StaleStep)

SpecAging == InitAging /\ [][NextAging]_vars

\* time passes and the reporter keeps ticking: its sleep ends
FairAging == SpecAging /\ WF_vars(Pass(StaleStep)) /\ WF_vars(TickRefresh)

\* the three tasks with the connections' life cycle, until and after shutdown
NextShutdown ==
    \/ \E v \in Venues : ConnectOk(v)
    \/ \E v \in Venues : ConnectFail(v, ConnTries)
    \/ \E v \in Venues : SubscribeOk(v)
    \/ \E v \in Venues : StreamEnd(v, "closed")
    \/ \E v \in Venues : Closed(v)
    \/ \E v \in Venues : BackoffDone(v)
    \/ Reporter
    \/ Shutdown
    \/ \E v \in Venues : Cancelled(v)
    \/ \E v \in Venues : CancelledOpen(v)
    \/ ReporterCancelled
    \/ Advance(TicksPerSec, EvalSeconds * TicksPerSec)

SpecShutdown == Init /\ [][NextShutdown]_vars

\* the event loop runs every cancelled task (asyncio.run waits for them), and
\* the exit of a connection context completes
FairShutdown ==
    /\ SpecShutdown
    /\ WF_vars(ReporterCancelled)
    /\ \A v \in Venues : WF_vars(Cancelled(v)) /\ WF_vars(CancelledOpen(v)) /\ WF_vars(Closed(v))

\* a request of the fee lookup ends: it is sent with timeout=8
FeeReturn ==
    \/ \E net \in Nets : \E payload \in Payloads(env["kraken"]) : FeeKrakenReturn(net, payload)
    \/ \E net \in Nets : \E payload \in Payloads(env["coinbase"]) : FeeCoinbaseReturn(net, payload)

FairEval == SpecEval /\ WF_vars(FeeReturn)

\* the sleep of the backoff ends and the exit of a connection context completes
FairBackoff ==
    SpecBackoff /\ \A v \in Venues : WF_vars(BackoffDone(v)) /\ WF_vars(Closed(v))

\* -------------------------------------------------------------- properties
\* a step in which connector v handles a frame
Frame(v) == state'[v].msgs # state[v].msgs

\* C1: after a valid top-of-book update is processed the venue's stored bid and
\* ask equal the values parsed from that update (Kraken: each side the frame
\* quotes; Coinbase: the frame's last tick) and last_ts is the time of
\* processing; over every step, no venue's last_ts decreases.
C1_StoredEqualsParsed ==
    [][ /\ Frame("kraken") => \A m \in KrakenValidMsgs :
             Receive("kraken", m) =>
                 /\ Quoted(m.bids) => state'["kraken"].bid = m.bids.price
                 /\ Quoted(m.asks) => state'["kraken"].ask = m.asks.price
                 /\ state'["kraken"].last_ts = now
        /\ Frame("coinbase") => \A m \in CoinbaseValidMsgs :
             Receive("coinbase", m) =>
                 /\ state'["coinbase"].bid = LastTick(m).bid
                 /\ state'["coinbase"].ask = LastTick(m).ask
                 /\ state'["coinbase"].last_ts = now
        /\ \A v \in Venues : state'[v].last_ts >= state[v].last_ts ]_vars

\* both venues hold a quote, the second stored later than the first
C1_Witness ==
    /\ state["kraken"].bid = 10080 /\ state["kraken"].ask = 10090
    /\ state["coinbase"].bid = 10000 /\ state["coinbase"].ask = 10010
    /\ state["coinbase"].last_ts > state["kraken"].last_ts

KrakenMalformed(m) ==
    \/ m.shape \in {"undecodable", "list", "scalar", "data_scalar", "data0_scalar"}
    \/ m.shape = "book" /\ \E l \in {m.bids, m.asks} : Quoted(l) /\ l.price = BadNum

\* a Coinbase frame is counted as malformed only if it holds no tick that
\* parses in full
CoinbaseMalformed(m) ==
    \/ m.shape \in {"undecodable", "nondict", "noiter"}
    \/ /\ m.shape = "ticker"
       /\ \A i \in 1..Len(TicksOf(m.events)) :
             LET t == TicksOf(m.events)[i]
             IN ~(t.form = "dict" /\ Numeric(t.bid) /\ Numeric(t.ask))
       /\ \/ \E i \in 1..Len(m.events) : m.events[i].form = "scalar"
          \/ \E i \in 1..Len(TicksOf(m.events)) :
                LET t == TicksOf(m.events)[i]
                IN t.form = "scalar" \/ t.bid = BadNum \/ t.ask = BadNum

Malformed(v, m) == IF v = "kraken" THEN KrakenMalformed(m) ELSE CoinbaseMalformed(m)

MalformedMsgs == [v \in Venues |-> {m \in Msgs(v) : Malformed(v, m)}]

\* C2: a malformed frame (undecodable, of an unexpected shape, or with a price
\* field that is no number) leaves the venue's bid, ask and last_ts as they were.
C2_MalformedLeavesQuote ==
    [][ \A v \in Venues : Frame(v) => \A m \in MalformedMsgs[v] :
          Receive(v, m) =>
              /\ state'[v].bid = state[v].bid
              /\ state'[v].ask = state[v].ask
              /\ state'[v].last_ts = state[v].last_ts ]_vars

\* frames that are no price update: malformed ones, heartbeats,
\* acknowledgments and error frames
Unexpected(v, m) ==
    \/ Malformed(v, m)
    \/ m.shape \in {"event", "ack", "error", "other"}

UnexpectedMsgs == [v \in Venues |-> {m \in Msgs(v) : Unexpected(v, m)}]

\* C3: a malformed or unexpected frame does not end the connection: the
\* connector stays connected and goes on to the next frame.
C3_MalformedKeepsConnection ==
    [][ \A v \in Venues : Frame(v) => \A m \in UnexpectedMsgs[v] :
          Receive(v, m) =>
              /\ state'[v].connected
              /\ pc'[v] = "receiving" ]_vars

\* a step in which the reporter runs the rest of its tick (lines 304-340)
EvalStep == wake' # wake

AllPresent == \A v \in Venues : state[v].bid # None /\ state[v].ask # None

\* C4: on a tick in which one of the four prices is absent, no net spread is
\* computed and neither an alert nor a spread summary is emitted.
C4_NoSpreadWhenMissing ==
    [][ (EvalStep /\ ~AllPresent) => (out'.spread = <<>> /\ out'.alerts = {}) ]_vars

\* the reporter, holding fees, has warned of missing data: Kraken is quoted,
\* Coinbase never was
C4_Witness ==
    /\ out.missing /\ out.spread = <<>>
    /\ \A v \in Venues : _current_fees[v] # NoFees
    /\ state["kraken"].bid # None /\ state["kraken"].ask # None
    /\ state["coinbase"].bid = None

\* C5: on a tick with all four prices and both venues' fees, each direction
\* alerts if and only if bidY*(1 - takerY) - askX*(1 + takerX) exceeds the
\* threshold (rates in units of 1 / FeeScale).
C5_AlertIffProfitable ==
    [][ (EvalStep /\ AllPresent /\ \A v \in Venues : _current_fees'[v] # NoFees) =>
          LET k == state["kraken"]
              c == state["coinbase"]
              kf == _current_fees'["kraken"].taker
              cbf == _current_fees'["coinbase"].taker
          IN /\ ("K->CB" \in out'.alerts) <=>
                   (c.bid * (FeeScale - cbf) - k.ask * (FeeScale + kf) > PROFIT_ALERT * FeeScale)
             /\ ("CB->K" \in out'.alerts) <=>
                   (k.bid * (FeeScale - kf) - c.ask * (FeeScale + cbf) > PROFIT_ALERT * FeeScale)
             /\ out'.alerts \subseteq {"K->CB", "CB->K"} ]_vars

\* Kraken 100.00/100.10, Coinbase 100.80/100.90, both takers 0.10%: the tick
\* alerts for buying on Kraken and selling on Coinbase only
C5_Witness ==
    /\ out.spread = <<499100, -1100900>>
    /\ out.alerts = {"K->CB"}

\* C6: a tick emits at most one staleness warning, more than WARN_SECS after
\* the warning before it; last_warn_stale is the time of the latest warning.
C6_StaleRateLimit ==
    [][ EvalStep =>
          /\ out'.stale # <<>> =>
                /\ Len(out'.stale) = 1
                /\ now - last_warn_stale > WARN_SECS * TicksPerSec
          /\ last_warn_stale' = IF out'.stale # <<>> THEN now ELSE last_warn_stale ]_vars

\* both venues are stale on a tick that has just warned for Kraken alone
C6_Witness ==
    /\ rpc = "sleeping" /\ wake = now + TickPeriod
    /\ out.stale = <<"kraken">>
    /\ last_warn_stale = now
    /\ state["coinbase"].last_ts # None
    /\ now - state["coinbase"].last_ts > STALE_SECS * TicksPerSec

\* C8: two consecutive invocations of get_fees for the same venue are at
\* least FEE_REFRESH_SECS apart.
C8_FeeCallsSpaced ==
    [][ \A v \in Venues :
          (last_call[v] # None /\ last_call'[v] # last_call[v]) =>
              last_call'[v] - last_call[v] >= FEE_REFRESH_SECS * TicksPerSec ]_vars

\* C7: every backoff delay is at most the cap; a delay that follows a failed
\* attempt with no connection in between is not shorter than the one before;
\* the delay after an opened connection is lost, like the first delay of a
\* fresh start, is the base delay.
C7_BackoffShape ==
    [][ \A v \in Venues :
          (pc[v] # "backoff" /\ pc'[v] = "backoff") =>
              /\ delay'[v] <= BackoffCap
              /\ pc[v] = "connecting" => delay'[v] >= delay[v]
              /\ (pc[v] = "closing" \/ delay[v] = 0) => delay'[v] = BackoffBase + 1 ]_vars

\* a connector waits the capped delay for the second time in a row
C7_Witness ==
    \E v \in Venues :
        pc[v] = "backoff" /\ delay[v] = BackoffCap /\ reconnect_tries[v] = 16

\* C9: a connector that waits in backoff or has no open connection has its
\* connected flag false.
C9_DisconnectedWhenDown ==
    \A v \in Venues : pc[v] \in {"backoff", "connecting"} => ~state[v].connected

\* C10: a connector whose connection ended or whose attempt failed starts a
\* new attempt eventually, and never leaves its loop.
C10_RetriesForever ==
    \A v \in Venues :
        /\ [](pc[v] \in {"connecting", "subscribing", "receiving", "closing", "backoff"})
        /\ (pc[v] \in {"closing", "backoff"}) ~> (pc[v] = "connecting")

\* a connector starts its fifth attempt in a row
C10_Witness ==
    \E v \in Venues : pc[v] = "connecting" /\ reconnect_tries[v] = 4

\* a fee dict with both rates
FullFees(f) == f.taker \in 0..FeeScale /\ f.maker \in 0..FeeScale

\* C11: whatever the credentials, the outcome of the request and the body of
\* the response, get_fees returns a dict with a taker and a maker rate and
\* raises nothing: no refresh fails, and what the fee cache and the reporter
\* hold are full dicts.
C11_GetFeesAlwaysReturns ==
    /\ ~out.fees_warn
    /\ \A v \in Venues :
          /\ _cache[v].fees # NoFees => FullFees(_cache[v].fees)
          /\ _current_fees[v] # NoFees => FullFees(_current_fees[v])
    /\ kr # NoFees => FullFees(kr)

\* C12: the reporter never leaves its loop: it is asleep or inside a fee
\* lookup, a tick that has begun is completed whatever the lookups do, and once
\* asleep its next tick is due within one period.
C12_ReporterNeverStops ==
    /\ [](rpc \in {"sleeping", "fee_kraken", "fee_coinbase"})
    /\ [](rpc = "sleeping" => wake <= now + TickPeriod)
    /\ (rpc # "sleeping") ~> (rpc = "sleeping")

\* a tick whose refresh failed has been completed with all four prices stored
C12_Witness ==
    /\ out.fees_warn
    /\ rpc = "sleeping" /\ wake = now + TickPeriod
    /\ AllPresent

\* C13: a refresh that fails leaves _current_fees (and the time of the last
\* refresh) as they were, also when Kraken's lookup had returned before
\* Coinbase's failed; the cached dicts change only in the step that completes a
\* refresh without failure, so every other tick goes on with the values held.
C13_FailedRefreshKeepsFees ==
    [][ /\ (EvalStep /\ out'.fees_warn) =>
              /\ _current_fees' = _current_fees
              /\ _last_fee_refresh' = _last_fee_refresh
        /\ _current_fees' # _current_fees => (EvalStep /\ ~out'.fees_warn) ]_vars

\* the reporter holds both venues' dicts; in the refresh that has just failed
\* Kraken's lookup returned and stored a dict that differs from the one held
C13_Witness ==
    /\ out.fees_warn /\ rpc = "sleeping"
    /\ \A v \in Venues : _current_fees[v] # NoFees
    /\ _cache["kraken"].fees # NoFees
    /\ _cache["kraken"].fees # _current_fees["kraken"]
    /\ _cache["kraken"].ts > _last_fee_refresh

\* what every completely applied price update leaves behind: Kraken stamps
\* last_ts whenever it stores a bid or an ask; Coinbase stores bid and ask
\* together and stamps last_ts with them
Whole(v, rec) ==
    IF v = "kraken"
    THEN (rec.bid # None \/ rec.ask # None) <=> (rec.last_ts # None)
    ELSE /\ (rec.bid # None) <=> (rec.ask # None)
         /\ (rec.bid # None) <=> (rec.last_ts # None)

\* C14: the record of a venue that the reporter reads on a tick is the outcome
\* of whole updates: it never holds the bid of a frame without the ask or the
\* last_ts that go with it.
C14_ReporterReadsWholeRecords ==
    [][ EvalStep => \A v \in Venues : Whole(v, state[v]) ]_vars

\* C15: a bid, an ask or a last_ts that is set is never absent again; a step
\* of a connector that handles no frame (connect, subscribe, close, failure,
\* backoff) changes nothing of the venue's record but `connected`.
C15_QuoteNeverCleared ==
    [][ \A v \in Venues :
          /\ state[v].bid # None => state'[v].bid # None
          /\ state[v].ask # None => state'[v].ask # None
          /\ state[v].last_ts # None => state'[v].last_ts # None
          /\ ~Frame(v) => state'[v] = [state[v] EXCEPT !.connected = state'[v].connected]
      ]_vars

\* a venue that was quoted, lost its connection and waited in backoff is
\* connected again and still holds the quote
C15_Witness ==
    \E v \in Venues :
        /\ pc[v] = "subscribing" /\ delay[v] > 0
        /\ state[v].connected
        /\ state[v].bid # None /\ state[v].ask # None /\ state[v].last_ts # None

\* C16: once the tasks are cancelled, no connector goes back to connecting,
\* backoff or receiving and the reporter starts no tick or lookup: each task is
\* about to receive the CancelledError, is leaving its connection because of
\* it, or has ended; and all three tasks end.
C16_ShutdownEndsTasks ==
    /\ [](shutdown =>
            /\ rpc \in {"cancelling", "done"}
            /\ \A v \in Venues :
                  /\ pc[v] \in {"cancelling", "cancelling_open", "closing", "done"}
                  /\ pc[v] = "closing" => cause[v] = "cancelled")
    /\ shutdown ~> (rpc = "done" /\ \A v \in Venues : pc[v] = "done")

\* all tasks have ended: Kraken was cancelled inside its connection, Coinbase
\* in a backoff sleep, the reporter inside a fee lookup that never returned
C16_Witness ==
    /\ shutdown /\ rpc = "done" /\ \A v \in Venues : pc[v] = "done"
    /\ state["kraken"].connected
    /\ ~state["coinbase"].connected /\ delay["coinbase"] > 0
    /\ last_call["kraken"] # None /\ _last_fee_refresh = 0 /\ ~out.fees_warn

\* C17: every tick on which all four prices are present emits the spread
\* summary with both directions' net spreads, whatever the alerts.
C17_SummaryWhenAllPresent ==
    [][ (EvalStep /\ AllPresent) => Len(out'.spread) = 2 ]_vars

\* the venue's quote is older than STALE_SECS
StaleNow(v) == state[v].last_ts # None /\ now - state[v].last_ts > STALE_SECS * TicksPerSec

\* the latest tick has logged a staleness warning that names the venue
Named(v) == \E i \in 1..Len(out.stale) : out.stale[i] = v

\* C18: a venue whose quote stays stale from some moment on, while time passes
\* and the reporter keeps ticking, is named in a staleness warning, whatever
\* the other venue's state.
C18_StaleVenueIsNamed ==
    \A v \in Venues : (<>[]StaleNow(v)) => <>Named(v)

\* C19: on a tick with all four prices and both venues' fees, both net
\* spreads are computed from the prices held and each direction that exceeds
\* the threshold alerts, also when a quote is stale or a venue is disconnected.
C19_StaleStillEvaluated ==
    [][ ( /\ EvalStep /\ AllPresent
          /\ \A v \in Venues : _current_fees'[v] # NoFees
          /\ \E v \in Venues : StaleNow(v) \/ ~state[v].connected ) =>
          LET k == state["kraken"]
              c == state["coinbase"]
              kf == _current_fees'["kraken"].taker
              cbf == _current_fees'["coinbase"].taker
              a_to_b == c.bid * (FeeScale - cbf) - k.ask * (FeeScale + kf)
              b_to_a == k.bid * (FeeScale - kf) - c.ask * (FeeScale + cbf)
          IN /\ out'.spread = <<a_to_b, b_to_a>>
             /\ ("K->CB" \in out'.alerts) <=> (a_to_b > PROFIT_ALERT * FeeScale)
             /\ ("CB->K" \in out'.alerts) <=> (b_to_a > PROFIT_ALERT * FeeScale) ]_vars

\* a tick has alerted on prices that are both stale, one venue disconnected
C19_Witness ==
    /\ rpc = "sleeping" /\ wake = now + TickPeriod
    /\ out.alerts = {"K->CB"} /\ Len(out.spread) = 2
    /\ out.stale # <<>>
    /\ \A v \in Venues : StaleNow(v)
    /\ ~state["coinbase"].connected /\ state["kraken"].connected

\* a step of venue v's connector coroutine (not the cancellation by main)
ConnectorStep(v) ==
    /\ shutdown' = shutdown
    /\ <<pc[v], state[v], reconnect_tries[v], delay[v], cause[v]>>'
         # <<pc[v], state[v], reconnect_tries[v], delay[v], cause[v]>>

\* a step of the reporter coroutine (not the cancellation by main)
ReporterStep ==
    /\ shutdown' = shutdown
    /\ <<rpc, wake, last_warn_missing, last_warn_stale, last_hb, _current_fees,
         _last_fee_refresh, _cache, fee_now, kr, last_call>>'
         # <<rpc, wake, last_warn_missing, last_warn_stale, last_hb, _current_fees,
             _last_fee_refresh, _cache, fee_now, kr, last_call>>

\* C20: a step of one venue's connector leaves the other venue's record, the
\* reporter's fee dicts and its last-refresh time unchanged; a step of the
\* reporter leaves both venue records unchanged.
C20_SingleWriter ==
    [][ /\ \A v \in Venues : ConnectorStep(v) =>
              /\ \A w \in Venues \ {v} : state'[w] = state[w]
              /\ _current_fees' = _current_fees
              /\ _last_fee_refresh' = _last_fee_refresh
        /\ ReporterStep => state' = state ]_vars

\* both connectors have stored a quote, one has lost its connection since, and
\* the reporter has stored both fee dicts
C20_Witness ==
    /\ \A v \in Venues : state[v].bid # None /\ state[v].msgs > 0
    /\ state["kraken"].connected /\ ~state["coinbase"].connected
    /\ \A v \in Venues : _current_fees[v] # NoFees
    /\ _last_fee_refresh > 0
    /\ ~shutdown

\* C21: a frame that is a valid price update adds one to the venue's count of
\* messages, any other frame leaves the count as it was, and no step lowers it.
C21_MsgsCountsUpdates ==
    [][ \A v \in Venues :
          /\ \A m \in Msgs(v) : Receive(v, m) =>
                state'[v].msgs = state[v].msgs + (IF m \in ValidMsgs(v) THEN 1 ELSE 0)
          /\ state'[v].msgs >= state[v].msgs ]_vars

\* C22: a tick warns of missing data exactly when one of the four prices is
\* absent and more than WARN_SECS have passed since the warning before it;
\* last_warn_missing is the time of the latest warning.
C22_MissingRateLimit ==
    [][ EvalStep =>
          /\ out'.missing <=>
                (~AllPresent /\ now - last_warn_missing > WARN_SECS * TicksPerSec)
          /\ last_warn_missing' = IF out'.missing THEN now ELSE last_warn_missing ]_vars

\* a tick with a price still absent has stayed silent, two seconds after the
\* warning before it
C22_Witness ==
    /\ rpc = "sleeping" /\ wake = now + TickPeriod
    /\ ~AllPresent
    /\ ~out.missing
    /\ last_warn_missing >= StartTime
    /\ now - last_warn_missing = 2 * TicksPerSec

\* where the reporter is suspended while venue v's fee request is under way
FeePlace(v) == IF v = "kraken" THEN "fee_kraken" ELSE "fee_coinbase"

\* a step in which get_fees sends a request for venue v
LookupIssued(v) == rpc' = FeePlace(v) /\ rpc # FeePlace(v)

\* C23: get_fees sends a request for a venue only when no value stored for it
\* is younger than CACHE_TTL; a call that finds a younger one returns it and
\* sends nothing; and once a request has ended, whether it brought fees or
\* failed, no further request is sent for that venue before CACHE_TTL is over.
C23_LookupOncePerTtl ==
    [][ \A v \in Venues :
          /\ LookupIssued(v) =>
                /\ _get_cached(_cache, v, now) = NoFees
                /\ \/ last_lookup[v] = None
                   \/ now - last_lookup[v] >= CACHE_TTL * TicksPerSec
          /\ (last_call'[v] # last_call[v] /\ _get_cached(_cache, v, now) # NoFees) =>
                /\ ~LookupIssued(v)
                /\ _cache'[v] = _cache[v]
                /\ _last_fee_refresh' # _last_fee_refresh =>
                      _current_fees'[v] = _cache[v].fees ]_vars

\* C24: the counter behind the delay is set to 0 when the socket opens, grows
\* by one when an attempt or a connection ends and moves at no other step; the
\* delay then waited is 5 plus the counter, at most 20, hence within 6..20; and
\* the delay after an opened connection ends is 6.
C24_DelayCountsEndings ==
    [][ \A v \in Venues :
          LET n == reconnect_tries'[v]
              ends == pc[v] # "backoff" /\ pc'[v] = "backoff"
              opens == pc[v] = "connecting" /\ pc'[v] = "subscribing"
          IN /\ ends =>
                  /\ n = reconnect_tries[v] + 1
                  /\ n >= 1
                  /\ delay'[v] = (IF BackoffBase + n < BackoffCap
                                  THEN BackoffBase + n ELSE BackoffCap)
                  /\ delay'[v] \in (BackoffBase + 1)..BackoffCap
             /\ opens => n = 0
             /\ ~ends /\ ~opens => (n = reconnect_tries[v] /\ delay'[v] = delay[v])
             /\ (ends /\ pc[v] = "closing") => delay'[v] = BackoffBase + 1 ]_vars

\* Kraken waits the minimum delay after a connection that had opened was
\* closed by the peer, Coinbase the capped delay after attempts that all failed
C24_Witness ==
    /\ pc["kraken"] = "backoff" /\ state["kraken"].connected
    /\ reconnect_tries["kraken"] = 1 /\ delay["kraken"] = BackoffBase + 1
    /\ pc["coinbase"] = "backoff" /\ ~state["coinbase"].connected
    /\ reconnect_tries["coinbase"] > BackoffCap - BackoffBase
    /\ delay["coinbase"] = BackoffCap

====
